---- MODULE Spec2Model ----
(***************************************************************************)
(* Model of internals/bblt.go: the two Bubble Tea models (usernameModel,   *)
(* the IdentityController, and repoModel, the BrowseController), the       *)
(* commands they return and the event loop that feeds them messages.       *)
(* Strings that the code slices or trims are sequences of one-character    *)
(* strings.                                                                *)
(***************************************************************************)
EXTENDS Integers, Sequences, FiniteSets, TLC

VARIABLES
    model,     \* the tea.Model owned by the event loop (active controller)
    msg,       \* the tea.Msg handled by the last Update call
    cmd,       \* the tea.Cmd(s) returned by the last Update call
    inline,    \* collaborator calls performed inside the last Update call
    clones,    \* cloneRepo commands in flight (their URLs)
    ticking,   \* a spinner tick command is in flight
    status,    \* "running", "quit" (loop ended) or "crashed" (panic)
    ran        \* collaborator calls the last step made outside Update

vars == <<model, msg, cmd, inline, clones, ticking, status, ran>>

----------------------------------------------------------------------------
\* Bounds of the explored inputs.

MaxText == 1        \* longest text typed or read from git config
MaxPages == 2       \* most pages a fetch answers with
MaxPageLen == 1     \* most repositories on one page
MaxClones == 2      \* most clone commands the loop lets be in flight
MaxFrames == 2      \* spinner frames told apart (spinner.Dot cycles through 8)

\* Program constants.

CharLimit == 64     \* ti.CharLimit
FrameW == 4         \* normalStyle horizontal frame: Margin(1, 2) => 2 + 2
FrameH == 2         \* normalStyle vertical frame: Margin(1, 2) => 1 + 1
InitW == 80         \* l.SetSize(80, 24)
InitH == 24

----------------------------------------------------------------------------
\* Input universes.

Chars == {"c", " "}

Keys == {"ctrl+c", "enter", "esc", "backspace", "up", "down"} \cup Chars

SeqsUpTo(S, n) == UNION {[1..k -> S] : k \in 0..n}

Texts == SeqsUpTo(Chars, MaxText)

WindowSizes == {<<100, 30>>}

\* Repositories the listing collaborator may answer with: one whose clone
\* URL ends in ".git" and one whose clone URL lacks the suffix.
Repos ==
    { [name |-> "r", url |-> <<"h", "/", "r", ".", "g", "i", "t">>],
      [name |-> "repo", url |-> <<"h", "/", "r", "e", "p", "o">>] }

PageError == [failed |-> TRUE]

Page(rs) == [failed |-> FALSE, repos |-> rs]

Pages == {Page(rs) : rs \in SeqsUpTo(Repos, MaxPageLen)}

RECURSIVE Concat(_)
Concat(pages) ==
    IF pages = <<>> THEN <<>>
    ELSE (IF Head(pages).failed THEN <<>> ELSE Head(pages).repos) \o Concat(Tail(pages))

NoDuplicates(s) == \A i, j \in 1..Len(s) : s[i] = s[j] => i = j

\* An answer of the listing collaborator: the pages it serves one after the
\* other (NextPage = 0 on the last); a failing page ends the answer, and no
\* repository is listed twice.
Responses ==
    { r \in UNION {[1..k -> Pages \cup {PageError}] : k \in 1..MaxPages} :
        /\ \A i \in 1..(Len(r) - 1) : ~r[i].failed
        /\ NoDuplicates(Concat(r)) }

CloneOutputs == {"fatal"}

----------------------------------------------------------------------------
\* Values.

\* error values: nil, or the text of the error and what it wraps
NoErr == [nil |-> TRUE]

NoCmd == {}

Quit == [op |-> "quit"]

TickCmd == [op |-> "tick"]

CloneCmd(url) == [op |-> "clone", url |-> url]

NoMsg == [type |-> "none"]

KeyMsg(k) == [type |-> "key", key |-> k]

WindowSizeMsg(w, h) == [type |-> "size", w |-> w, h |-> h]

TickMsg == [type |-> "tick"]

cloneFinishedMsg(err, dir) == [type |-> "cloneFinished", err |-> err, dir |-> dir]

EmptyCloneMsg == [kind |-> "none"]

----------------------------------------------------------------------------
\* strings.TrimSpace

IsSpace(c) == c = " "

RECURSIVE TrimLeft(_)
TrimLeft(s) ==
    IF s # <<>> /\ IsSpace(Head(s)) THEN TrimLeft(Tail(s)) ELSE s

RECURSIVE TrimRight(_)
TrimRight(s) ==
    IF s # <<>> /\ IsSpace(s[Len(s)])
    THEN TrimRight(SubSeq(s, 1, Len(s) - 1))
    ELSE s

TrimSpace(s) == TrimRight(TrimLeft(s))

----------------------------------------------------------------------------
\* The list widget (bubbles list.Model), as far as the keys of Keys drive it.

item(repo) == [name |-> repo.name, url |-> repo.url]

NoItem == [nil |-> TRUE]

NewList(items) == [items |-> items, index |-> 0, w |-> 0, h |-> 0]

ListSetSize(l, w, h) == [l EXCEPT !.w = w, !.h = h]

\* list.Model.SelectedItem: nil when the cursor points at no visible item.
ListSelectedItem(l) ==
    IF l.index < 0 \/ Len(l.items) = 0 \/ Len(l.items) <= l.index
    THEN NoItem
    ELSE l.items[l.index + 1]

\* list.Model.Update under the default KeyMap: ctrl+c is ForceQuit, q and
\* esc are Quit, up and down move the cursor; every other message of this
\* model leaves the widget as it is.
ListUpdate(l, m) ==
    IF m.type # "key" THEN [list |-> l, cmd |-> NoCmd]
    ELSE IF m.key \in {"ctrl+c", "q", "esc"} THEN [list |-> l, cmd |-> {Quit}]
    ELSE IF m.key = "down"
    THEN [list |-> [l EXCEPT !.index =
                       IF l.index + 1 < Len(l.items) THEN l.index + 1 ELSE l.index],
          cmd |-> NoCmd]
    ELSE IF m.key = "up"
    THEN [list |-> [l EXCEPT !.index = IF l.index > 0 THEN l.index - 1 ELSE 0],
          cmd |-> NoCmd]
    ELSE [list |-> l, cmd |-> NoCmd]

\* spinner.New / spinner.Model.Update: a tick advances the frame and asks
\* for the next tick.
NewSpinner == [frame |-> 0]

SpinnerUpdate(sp) ==
    [spinner |-> [frame |-> (sp.frame + 1) % MaxFrames], cmd |-> {TickCmd}]

\* textinput.Model.Update: a rune is appended below CharLimit, backspace
\* deletes the last rune, every other message leaves the value.
TextInputUpdate(value, m) ==
    IF m.type # "key" THEN value
    ELSE IF m.key \in Chars
    THEN IF Len(value) < CharLimit THEN Append(value, m.key) ELSE value
    ELSE IF m.key = "backspace" /\ value # <<>>
    THEN SubSeq(value, 1, Len(value) - 1)
    ELSE value

----------------------------------------------------------------------------
\* repoModel and usernameModel values.

\* The zero value repoModel{}.
ZeroRepoModel ==
    [kind |-> "repo", username |-> <<>>, repos |-> <<>>, list |-> NewList(<<>>),
     err |-> NoErr, spinner |-> NewSpinner, cloning |-> FALSE,
     cloneMsg |-> EmptyCloneMsg, cloneError |-> FALSE]

\* Mutant of prepUsernameModel: the text field is not seeded.
prepUsernameModel_Unseeded(username, rootModel) ==
    [kind |-> "username", rootModel |-> rootModel, username |-> username,
     textInput |-> <<>>, err |-> NoErr]

prepUsernameModel(username, rootModel) ==
    [kind |-> "username", rootModel |-> rootModel, username |-> username,
     textInput |-> username, err |-> NoErr]

\* fetchRepos: follow the pages of the collaborator's answer; the first
\* failing page returns (nil, error), otherwise the pages are concatenated.
\* fmt.Errorf("failed to list repos: %w", err)
FetchErr == [text |-> "failed to list repos", wrapped |-> "list error"]

\* Mutant of FetchLoop: NextPage is not followed, the first page is all.
FetchLoop_FirstPageOnly(resp, i, allRepos) ==
    IF resp[i].failed THEN [repos |-> <<>>, err |-> FetchErr]
    ELSE [repos |-> allRepos \o resp[i].repos, err |-> NoErr]

RECURSIVE FetchLoop(_, _, _)
FetchLoop(resp, i, allRepos) ==
    IF resp[i].failed THEN [repos |-> <<>>, err |-> FetchErr]
    ELSE IF i = Len(resp) THEN [repos |-> allRepos \o resp[i].repos, err |-> NoErr]
    ELSE FetchLoop(resp, i + 1, allRepos \o resp[i].repos)

fetchRepos(username, resp) == FetchLoop(resp, 1, <<>>)

\* The record of one fetchRepos call, as kept in the variables inline and ran.
FetchCall(username, resp) == [op |-> "fetch", username |-> username, resp |-> resp]

\* The record of the `git config user.name` run of BbltRun.
ConfigRun(out, failed) == [op |-> "gitconfig", out |-> out, failed |-> failed]

\* The record of the `git clone` run of a cloneRepo command.
CloneRun(url, ok, output) == [op |-> "clone", url |-> url, ok |-> ok, output |-> output]

\* Mutant of initialModel: after a failed fetch the pages that were read
\* are listed.
initialModel_ShowsPartial(username, resp) ==
    LET fetched == fetchRepos(username, resp)
        repos == Concat(resp)
        err == fetched.err
    IN  IF Len(repos) <= 0
        THEN [ZeroRepoModel EXCEPT !.username = username, !.err = err]
        ELSE [ZeroRepoModel EXCEPT
                 !.username = username,
                 !.err = err,
                 !.repos = repos,
                 !.list = ListSetSize(
                              NewList([i \in 1..Len(repos) |-> item(repos[i])]),
                              InitW, InitH)]

initialModel(username, resp) ==
    LET fetched == fetchRepos(username, resp)
        repos == fetched.repos
        err == fetched.err
    IN  IF err # NoErr \/ Len(repos) <= 0
        THEN [ZeroRepoModel EXCEPT !.username = username, !.err = err]
        ELSE [ZeroRepoModel EXCEPT
                 !.username = username,
                 !.repos = repos,
                 !.list = ListSetSize(
                              NewList([i \in 1..Len(repos) |-> item(repos[i])]),
                              InitW, InitH)]

----------------------------------------------------------------------------
\* cloneRepo: the command's closure, run outside the event loop.  ok is the
\* outcome of `git clone`, output its combined output.  The directory name
\* is url[strings.LastIndex(url, "/")+1 : len(url)-4]; Go panics when the
\* slice bounds are out of range.

RECURSIVE LastIndex(_, _)
LastIndex(s, c) ==
    IF s = <<>> THEN -1
    ELSE IF s[Len(s)] = c THEN Len(s) - 1
    ELSE LastIndex(SubSeq(s, 1, Len(s) - 1), c)

SliceLow(url) == LastIndex(url, "/") + 1

SliceHigh(url) == Len(url) - 4

SlicePanics(url) == SliceHigh(url) < 0 \/ SliceLow(url) > SliceHigh(url)

\* fmt.Errorf("%w: %s", err, string(output))
CloneErr(output) == [text |-> output, wrapped |-> "exit status"]

\* Mutant of cloneRepo: the error does not carry the command's output.
cloneRepo_DropsOutput(url, ok, output) ==
    IF ~ok THEN [panic |-> FALSE, msg |-> cloneFinishedMsg(CloneErr(""), <<>>)]
    ELSE IF SlicePanics(url) THEN [panic |-> TRUE, msg |-> NoMsg]
    ELSE [panic |-> FALSE,
          msg |-> cloneFinishedMsg(NoErr, SubSeq(url, SliceLow(url) + 1, SliceHigh(url)))]

cloneRepo(url, ok, output) ==
    IF ~ok THEN [panic |-> FALSE, msg |-> cloneFinishedMsg(CloneErr(output), <<>>)]
    ELSE IF SlicePanics(url) THEN [panic |-> TRUE, msg |-> NoMsg]
    ELSE [panic |-> FALSE,
          msg |-> cloneFinishedMsg(NoErr, SubSeq(url, SliceLow(url) + 1, SliceHigh(url)))]

----------------------------------------------------------------------------
\* Update returns (tea.Model, tea.Cmd); the result also carries the
\* collaborator calls made before returning and whether the call panicked.

Result(m, c) == [model |-> m, cmd |-> c, inline |-> <<>>, panic |-> FALSE]

Panic(m) == [model |-> m, cmd |-> NoCmd, inline |-> <<>>, panic |-> TRUE]

\* Mutant of usernameModelEnter: the text is compared untrimmed.
usernameModelEnter_NoTrim(m, resp) ==
    LET username == m.textInput
    IN  IF username = <<>>
        THEN Result(m, NoCmd)
        ELSE [model |-> initialModel(username, resp), cmd |-> NoCmd,
              inline |-> <<FetchCall(username, resp)>>, panic |-> FALSE]

\* Mutant of usernameModelEnter: confirming the identity already browsed
\* reuses the previous BrowseController instead of fetching.
usernameModelEnter_Cached(m, resp) ==
    LET username == TrimSpace(m.textInput)
    IN  IF username = <<>>
        THEN Result(m, NoCmd)
        ELSE IF username = m.username
        THEN Result(m.rootModel, NoCmd)
        ELSE [model |-> initialModel(username, resp), cmd |-> NoCmd,
              inline |-> <<FetchCall(username, resp)>>, panic |-> FALSE]

\* usernameModel.Update, case tea.KeyEnter.  resp is the answer the listing
\* collaborator gives if it is called.
usernameModelEnter(m, resp) ==
    LET username == TrimSpace(m.textInput)
    IN  IF username = <<>>
        THEN Result(m, NoCmd)
        ELSE [model |-> initialModel(username, resp), cmd |-> NoCmd,
              inline |-> <<FetchCall(username, resp)>>, panic |-> FALSE]

\* Mutant of usernameModelEsc: the returned BrowseController has its list
\* cursor reset.
usernameModelEsc_ResetsSelection(m) ==
    IF m.username = <<>> THEN Result(m, {Quit})
    ELSE Result([m.rootModel EXCEPT !.list.index = 0], NoCmd)

\* Mutant of usernameModelEsc: the edited text decides, not the held username.
usernameModelEsc_ChecksText(m) ==
    IF TrimSpace(m.textInput) = <<>> THEN Result(m, {Quit})
    ELSE Result(m.rootModel, NoCmd)

\* usernameModel.Update, case tea.KeyEsc.
usernameModelEsc(m) ==
    IF m.username = <<>> THEN Result(m, {Quit}) ELSE Result(m.rootModel, NoCmd)

usernameModelUpdate(m, mg, resp) ==
    IF mg.type = "key" /\ mg.key = "ctrl+c" THEN Result(m, {Quit})
    ELSE IF mg.type = "key" /\ mg.key = "enter" THEN usernameModelEnter(m, resp)
    ELSE IF mg.type = "key" /\ mg.key = "esc" THEN usernameModelEsc(m)
    ELSE Result([m EXCEPT !.textInput = TextInputUpdate(m.textInput, mg)], NoCmd)

\* Mutant of repoModelForward: a message given to the list clears the
\* clone result.
repoModelForward_ClearsResult(m, mg) ==
    LET r == ListUpdate(m.list, mg)
    IN  Result([m EXCEPT !.list = r.list,
                         !.cloneMsg = IF m.cloning THEN m.cloneMsg ELSE EmptyCloneMsg],
               r.cmd)

\* repoModel.Update, the last three lines: the message goes to the list.
repoModelForward(m, mg) ==
    LET r == ListUpdate(m.list, mg)
    IN  Result([m EXCEPT !.list = r.list], r.cmd)

\* repoModel.Update, case tea.KeyMsg, the "enter" branch.
repoModelEnter(m) ==
    LET selectedItem == ListSelectedItem(m.list)
    IN  IF selectedItem = NoItem
        THEN Panic(m)
        ELSE Result([m EXCEPT !.cloning = TRUE,
                              !.cloneMsg = [kind |-> "cloning", arg |-> selectedItem.name]],
                    {TickCmd, CloneCmd(selectedItem.url)})

\* Mutant of repoModelKey: enter is not guarded by !m.cloning.
repoModelKey_ReentrantEnter(m, mg) ==
    IF mg.key = "ctrl+c" /\ ~m.cloning THEN Result(m, {Quit})
    ELSE IF mg.key = "enter" THEN repoModelEnter(m)
    ELSE IF mg.key = "c" /\ ~m.cloning
    THEN Result(prepUsernameModel(m.username, m), NoCmd)
    ELSE repoModelForward(m, mg)

\* Mutant of repoModelKey: the change-identity key is not guarded by
\* !m.cloning.
repoModelKey_ChangeWhileCloning(m, mg) ==
    IF mg.key = "ctrl+c" /\ ~m.cloning THEN Result(m, {Quit})
    ELSE IF mg.key = "enter" /\ ~m.cloning THEN repoModelEnter(m)
    ELSE IF mg.key = "c"
    THEN Result(prepUsernameModel(m.username, m), NoCmd)
    ELSE repoModelForward(m, mg)

\* repoModel.Update, case tea.KeyMsg.
repoModelKey(m, mg) ==
    IF mg.key = "ctrl+c" /\ ~m.cloning THEN Result(m, {Quit})
    ELSE IF mg.key = "enter" /\ ~m.cloning THEN repoModelEnter(m)
    ELSE IF mg.key = "c" /\ ~m.cloning
    THEN Result(prepUsernameModel(m.username, m), NoCmd)
    ELSE repoModelForward(m, mg)

\* Mutant of repoModelResize: the new size resets the list cursor.
repoModelResize_ResetsCursor(m, mg) ==
    repoModelForward(
        [m EXCEPT !.list = [ListSetSize(m.list, mg.w - FrameW, mg.h - FrameH)
                               EXCEPT !.index = 0]], mg)

\* repoModel.Update, case tea.WindowSizeMsg (falls through to the list).
repoModelResize(m, mg) ==
    repoModelForward(
        [m EXCEPT !.list = ListSetSize(m.list, mg.w - FrameW, mg.h - FrameH)], mg)

\* Mutant of repoModelCloneFinished: m.cloning is cleared on success only.
repoModelCloneFinished_StuckOnError(m, mg) ==
    IF mg.err # NoErr
    THEN Result([m EXCEPT !.cloneError = TRUE,
                          !.cloneMsg = [kind |-> "error", arg |-> mg.err]], NoCmd)
    ELSE Result([m EXCEPT !.cloning = FALSE, !.cloneError = FALSE,
                          !.cloneMsg = [kind |-> "success", arg |-> mg.dir]], NoCmd)

\* Mutant of repoModelCloneFinished: m.cloning is not cleared.
repoModelCloneFinished_KeepsCloning(m, mg) ==
    IF mg.err # NoErr
    THEN Result([m EXCEPT !.cloneError = TRUE,
                          !.cloneMsg = [kind |-> "error", arg |-> mg.err]], NoCmd)
    ELSE Result([m EXCEPT !.cloneError = FALSE,
                          !.cloneMsg = [kind |-> "success", arg |-> mg.dir]], NoCmd)

\* repoModel.Update, case cloneFinishedMsg.
repoModelCloneFinished(m, mg) ==
    IF mg.err # NoErr
    THEN Result([m EXCEPT !.cloning = FALSE, !.cloneError = TRUE,
                          !.cloneMsg = [kind |-> "error", arg |-> mg.err]], NoCmd)
    ELSE Result([m EXCEPT !.cloning = FALSE, !.cloneError = FALSE,
                          !.cloneMsg = [kind |-> "success", arg |-> mg.dir]], NoCmd)

\* repoModel.Update, case spinner.TickMsg.
repoModelTick(m) ==
    LET r == SpinnerUpdate(m.spinner)
    IN  Result([m EXCEPT !.spinner = r.spinner], r.cmd)

repoModelUpdate(m, mg) ==
    IF mg.type = "key" THEN repoModelKey(m, mg)
    ELSE IF mg.type = "size" THEN repoModelResize(m, mg)
    ELSE IF mg.type = "cloneFinished" THEN repoModelCloneFinished(m, mg)
    ELSE IF mg.type = "tick" THEN repoModelTick(m)
    ELSE repoModelForward(m, mg)

\* The event loop's call of the active model's Update.
Update(m, mg, resp) ==
    IF m.kind = "username" THEN usernameModelUpdate(m, mg, resp)
    ELSE repoModelUpdate(m, mg)

\* repoModel.View: which of the four screens is rendered, and with what.
repoModelView(m) ==
    IF m.err # NoErr THEN [screen |-> "fetchError", text |-> m.err]
    ELSE IF m.cloning THEN [screen |-> "spinner", text |-> m.cloneMsg]
    ELSE IF m.cloneMsg # EmptyCloneMsg
    THEN [screen |-> "result", text |-> m.cloneMsg,
          style |-> IF m.cloneError THEN "errorStyle" ELSE "successStyle"]
    ELSE [screen |-> "list"]

----------------------------------------------------------------------------
\* The program: BbltRun builds the first model, then the loop handles one
\* message at a time.

\* BbltRun: out and failed are the outcome of `git config user.name`.
BbltRun(out, failed, resp) ==
    LET un == TrimSpace(out)
    IN  IF failed /\ un = <<>>
        THEN prepUsernameModel(<<>>, ZeroRepoModel)
        ELSE initialModel(un, resp)

Init ==
    \E out \in Texts, failed \in BOOLEAN, resp \in Responses :
        /\ model = BbltRun(out, failed, resp)
        /\ msg = NoMsg
        /\ cmd = NoCmd
        /\ inline = <<>>
        /\ clones = <<>>
        /\ ticking = (model.kind = "repo")   \* repoModel.Init returns spinner.Tick
        /\ status = "running"
        /\ ran = IF failed /\ TrimSpace(out) = <<>>
                 THEN <<ConfigRun(out, failed)>>
                 ELSE <<ConfigRun(out, failed), FetchCall(TrimSpace(out), resp)>>

CloneUrls(c) == {x.url : x \in {y \in c : y.op = "clone"}}

Remove(s, i) == SubSeq(s, 1, i - 1) \o SubSeq(s, i + 1, Len(s))

\* One turn of the loop: mg is handed to Update, the returned model replaces
\* the active one and the returned commands start running; a returned
\* tea.Quit ends the loop.  inflight are the clone commands still running
\* when mg arrives, run the collaborator calls that produced mg.
Deliver(mg, resp, inflight, run) ==
    LET r == Update(model, mg, resp)
        started == CloneUrls(r.cmd)
    IN  /\ msg' = mg
        /\ ran' = run
        /\ IF r.panic
           THEN /\ status' = "crashed"
                /\ clones' = inflight
                /\ UNCHANGED <<model, ticking>>
                /\ cmd' = NoCmd
                /\ inline' = <<>>
           ELSE /\ status' = IF Quit \in r.cmd THEN "quit" ELSE "running"
                /\ model' = r.model
                /\ cmd' = r.cmd
                /\ inline' = r.inline
                /\ clones' = IF started = {} THEN inflight
                             ELSE Append(inflight, CHOOSE u \in started : TRUE)
                /\ Len(clones') <= MaxClones
                /\ ticking' = IF mg.type = "tick" THEN TickCmd \in r.cmd
                              ELSE ticking \/ TickCmd \in r.cmd

NeedsFetch(mg) ==
    /\ model.kind = "username"
    /\ mg = KeyMsg("enter")
    /\ TrimSpace(model.textInput) # <<>>

\* A key press arrives.
KeyPress ==
    /\ status = "running"
    /\ \E k \in Keys :
        /\ model.kind = "username" /\ k \in Chars => Len(model.textInput) < MaxText
        /\ IF NeedsFetch(KeyMsg(k))
           THEN \E resp \in Responses : Deliver(KeyMsg(k), resp, clones, <<>>)
           ELSE Deliver(KeyMsg(k), <<PageError>>, clones, <<>>)

\* The terminal is resized.
Resize ==
    /\ status = "running"
    /\ \E sz \in WindowSizes : Deliver(WindowSizeMsg(sz[1], sz[2]), <<PageError>>, clones, <<>>)

\* The spinner's tick command fires.
Tick ==
    /\ status = "running"
    /\ ticking
    /\ Deliver(TickMsg, <<PageError>>, clones, <<>>)

\* A clone command finishes: its closure runs and its message is handled.
CloneFinished ==
    /\ status = "running"
    /\ \E i \in 1..Len(clones), ok \in BOOLEAN, output \in CloneOutputs :
        LET r == cloneRepo(clones[i], ok, output)
        IN  IF r.panic
            THEN /\ status' = "crashed"
                 /\ clones' = Remove(clones, i)
                 /\ msg' = NoMsg
                 /\ cmd' = NoCmd
                 /\ inline' = <<>>
                 /\ ran' = <<CloneRun(clones[i], ok, output)>>
                 /\ UNCHANGED <<model, ticking>>
            ELSE Deliver(r.msg, <<PageError>>, Remove(clones, i),
                         <<CloneRun(clones[i], ok, output)>>)

Next == KeyPress \/ Resize \/ Tick \/ CloneFinished

Spec == Init /\ [][Next]_vars

----------------------------------------------------------------------------
\* Vocabulary of the properties.

Browse(m) == m.kind = "repo"

Identity(m) == m.kind = "username"

\* The phase of a BrowseController, read from cloning and cloneMsg.
Phase(m) ==
    IF m.cloning THEN "Cloning"
    ELSE IF m.cloneMsg # EmptyCloneMsg THEN "CloneResult"
    ELSE "Idle"

HasSelection(m) == ListSelectedItem(m.list) # NoItem

Handled(mg) == msg' = mg

DispatchesClone(c) == CloneUrls(c) # {}

\* The entries a fetch answer amounts to: none if a page failed, else the
\* pages in order.
Entries(resp) ==
    IF \E i \in 1..Len(resp) : resp[i].failed THEN <<>> ELSE Concat(resp)

\* The item of m's list that the clone message names.
CloningItems(m) == {m.list.items[i] : i \in {j \in 1..Len(m.list.items) :
                                               m.list.items[j].name = m.cloneMsg.arg}}

----------------------------------------------------------------------------
\* C1: at most one clone command is in flight, and while the BrowseController
\* is cloning a confirm key (enter) dispatches no clone command and leaves
\* the phase Cloning.
C1_SingleCloneInFlight ==
    [][ /\ Len(clones') <= 1
        /\ (Browse(model) /\ model.cloning /\ Handled(KeyMsg("enter")))
              => /\ ~DispatchesClone(cmd')
                 /\ clones' = clones
                 /\ Browse(model') /\ Phase(model') = "Cloning"
                 /\ model'.cloneMsg = model.cloneMsg ]_vars

\* C1 witness: enter was handled while a clone was in flight.
C1_Witness ==
    /\ Browse(model) /\ model.cloning
    /\ msg = KeyMsg("enter") /\ cmd = NoCmd
    /\ Len(clones) = 1

\* C2: with no valid selection a confirm key does not crash, dispatches no
\* clone command and leaves the phase Idle.
C2_ConfirmWithoutSelectionIsSafe ==
    [][ (Browse(model) /\ ~HasSelection(model) /\ Handled(KeyMsg("enter")))
            => /\ status' # "crashed"
               /\ ~DispatchesClone(cmd')
               /\ Browse(model') /\ Phase(model') = "Idle" ]_vars

\* C3: while cloning no key produces the quit command, and when not cloning
\* ctrl+c produces it.
C3_QuitOnlyWhenNotCloning ==
    [][ (Browse(model) /\ msg'.type = "key" /\ status = "running")
            => IF model.cloning
               THEN Quit \notin cmd'
               ELSE msg'.key = "ctrl+c" => Quit \in cmd' ]_vars

\* C4: a clone-completion message, pending or delivered, belongs to the
\* active BrowseController, which is in the Cloning phase for that clone.
C4_NoStaleCloneCompletion ==
    [][ /\ \A i \in 1..Len(clones') :
              /\ Browse(model') /\ Phase(model') = "Cloning"
              /\ model'.cloneMsg.kind = "cloning"
              /\ \E it \in CloningItems(model') : it.url = clones'[i]
        /\ msg'.type = "cloneFinished"
              => /\ Browse(model) /\ Phase(model) = "Cloning"
                 /\ Browse(model')
                 /\ model' = [model EXCEPT !.cloning = model'.cloning,
                                           !.cloneMsg = model'.cloneMsg,
                                           !.cloneError = model'.cloneError] ]_vars

\* C4 witness: a clone-completion message was delivered.
C4_Witness ==
    /\ msg.type = "cloneFinished"
    /\ Browse(model) /\ Phase(model) = "CloneResult"

\* C5: the screen never shows cloning and a clone result together: the
\* spinner screen carries a "Cloning ..." message, the result screen a
\* success or error message, and a cloning controller shows the spinner.
C5_PhaseExclusive ==
    Browse(model) =>
        LET v == repoModelView(model)
        IN  /\ v.screen = "spinner" => v.text.kind = "cloning"
            /\ v.screen = "result" => v.text.kind \in {"error", "success"}
            /\ model.cloning => v.screen = "spinner"
            /\ model.cloneMsg.kind = "cloning" => model.cloning

\* C5 witness: a new clone runs right after a failed one.
C5_Witness ==
    /\ Browse(model) /\ model.cloning /\ model.cloneError
    /\ repoModelView(model).screen = "spinner"

\* C6: the IdentityController opened by the change-identity key keeps the
\* BrowseController it came from through every edit, and the cancel key makes
\* exactly that BrowseController active again, with no fetch and no command.
C6_CancelRestoresBrowse ==
    [][ /\ (Browse(model) /\ Identity(model')) => model'.rootModel = model
        /\ (Identity(model) /\ Identity(model')) => model'.rootModel = model.rootModel
        /\ (Identity(model) /\ model.username # <<>> /\ Handled(KeyMsg("esc")))
              => /\ model' = model.rootModel
                 /\ inline' = <<>>
                 /\ cmd' = NoCmd
                 /\ status' = "running" ]_vars

\* C6 witness: cancel brought back a BrowseController whose selection had
\* moved and which shows a clone result.
C6_Witness ==
    /\ Browse(model) /\ msg = KeyMsg("esc") /\ status = "running"
    /\ model.list.index > 0
    /\ Phase(model) = "CloneResult"

\* C7: the cancel key in the IdentityController signals termination exactly
\* when the username it holds (the field username, not the edited text) is
\* empty, and then no BrowseController becomes active.
C7_CancelQuitsIffNoIdentity ==
    [][ (Identity(model) /\ Handled(KeyMsg("esc")))
            => IF model.username = <<>>
               THEN Quit \in cmd' /\ status' = "quit" /\ model' = model
               ELSE Quit \notin cmd' /\ status' = "running" ]_vars

\* C7 witness: cancel ended the program although text had been typed.
C7_Witness ==
    /\ Identity(model) /\ msg = KeyMsg("esc") /\ status = "quit"
    /\ TrimSpace(model.textInput) # <<>>

\* C8: confirming an empty or whitespace-only text performs no fetch, returns
\* no command and leaves the IdentityController as it was.
C8_EmptyConfirmIsNoOp ==
    [][ (Identity(model) /\ Handled(KeyMsg("enter")) /\ TrimSpace(model.textInput) = <<>>)
            => /\ model' = model
               /\ cmd' = NoCmd
               /\ inline' = <<>>
               /\ status' = "running" ]_vars

\* C8 witness: a whitespace-only text was confirmed.
C8_Witness ==
    /\ Identity(model) /\ msg = KeyMsg("enter")
    /\ model.textInput # <<>>

\* C9: confirming a non-empty trimmed username performs exactly one fetch, for
\* that name, and the BrowseController that results holds the name, exactly
\* the entries of that fetch and an Idle phase without a clone result.
C9_ConfirmFetchesFresh ==
    [][ (Identity(model) /\ Handled(KeyMsg("enter")) /\ TrimSpace(model.textInput) # <<>>)
            => /\ Len(inline') = 1
               /\ inline'[1].op = "fetch"
               /\ inline'[1].username = TrimSpace(model.textInput)
               /\ Browse(model')
               /\ model'.username = TrimSpace(model.textInput)
               /\ model'.list.items = Entries(inline'[1].resp)
               /\ model'.list.index = 0
               /\ Phase(model') = "Idle"
               /\ ~model'.cloneError ]_vars

\* C9 witness: a confirmed name produced a BrowseController with entries.
C9_Witness ==
    /\ Browse(model) /\ msg = KeyMsg("enter")
    /\ Len(inline) = 1
    /\ model.list.items # <<>>

\* C10: no Update call performs a collaborator call (fetch or clone) before
\* it returns.
C10_NoInlineIO == inline = <<>>

----------------------------------------------------------------------------
\* The directory name the specification asks for: the final path segment of
\* the URL, without a trailing ".git".

GitSuffix == <<".", "g", "i", "t">>

LastSegment(url) == SubSeq(url, LastIndex(url, "/") + 2, Len(url))

HasGitSuffix(s) ==
    Len(s) >= Len(GitSuffix) /\ SubSeq(s, Len(s) - Len(GitSuffix) + 1, Len(s)) = GitSuffix

DirName(url) ==
    LET seg == LastSegment(url)
    IN  IF HasGitSuffix(seg) THEN SubSeq(seg, 1, Len(seg) - Len(GitSuffix)) ELSE seg

\* The clone run whose completion message the last step handled.
CloneRan(r) == Len(r) = 1 /\ r[1].op = "clone"

\* C11: a clone-completion message ends the Cloning phase with a result:
\* a failure carrying the command's output iff the command failed, else a
\* success with the message's directory name; entries, selection and
\* identity stay as they were.
C11_CompletionSetsResult ==
    [][ msg'.type = "cloneFinished"
          => /\ CloneRan(ran')
             /\ Browse(model) /\ Phase(model) = "Cloning"
             /\ Browse(model') /\ Phase(model') = "CloneResult"
             /\ model'.cloneError = ~ran'[1].ok
             /\ IF ran'[1].ok
                THEN /\ model'.cloneMsg = [kind |-> "success", arg |-> msg'.dir]
                     /\ repoModelView(model').style = "successStyle"
                ELSE /\ model'.cloneMsg.kind = "error"
                     /\ model'.cloneMsg.arg.text = ran'[1].output
                     /\ repoModelView(model').style = "errorStyle"
             /\ model'.list = model.list
             /\ model'.username = model.username
             /\ status' = "running" ]_vars

\* C11 witness: a failed clone left its output on a list whose selection
\* had moved.
C11_Witness ==
    /\ msg.type = "cloneFinished" /\ msg.err # NoErr
    /\ Browse(model) /\ model.cloneError
    /\ model.cloneMsg.arg.text \in CloneOutputs
    /\ model.list.index > 0

\* C12: a successful clone names the directory DirName(url): the final path
\* segment, less a trailing ".git" if there is one, and the run does not fail.
C12_DirNameIsLastSegment ==
    (CloneRan(ran) /\ ran[1].ok)
        => /\ status # "crashed"
           /\ msg.type = "cloneFinished"
           /\ msg.dir = DirName(ran[1].url)
           /\ model.cloneMsg = [kind |-> "success", arg |-> DirName(ran[1].url)]

\* The startup state: the last thing run was `git config user.name`.
Started(r) == Len(r) >= 1 /\ r[1].op = "gitconfig"

\* C13: at startup an absent (empty) identity or a failed read gives an
\* IdentityController with an empty field and no fetch; only a successfully
\* read non-empty identity gives a BrowseController for it.
C13_StartupController ==
    Started(ran) =>
        LET un == TrimSpace(ran[1].out)
        IN  IF ran[1].failed \/ un = <<>>
            THEN /\ Identity(model)
                 /\ model.textInput = <<>>
                 /\ Len(ran) = 1
            ELSE /\ Browse(model)
                 /\ model.username = un
                 /\ Len(ran) = 2 /\ ran[2].op = "fetch" /\ ran[2].username = un

\* The pages of a fetch answer all succeeded.
Succeeds(resp) == \A i \in 1..Len(resp) : ~resp[i].failed

RECURSIVE TotalCount(_)
TotalCount(pages) ==
    IF pages = <<>> THEN 0 ELSE Len(Head(pages).repos) + TotalCount(Tail(pages))

\* The confirm key was handled by an IdentityController holding a name.
Confirms == Identity(model) /\ Handled(KeyMsg("enter")) /\ TrimSpace(model.textInput) # <<>>

\* C14: after a confirmed name whose fetch succeeds, the entries are the
\* pages of the answer concatenated in page order: as many as all pages
\* hold, each at the place the fetch put it.
C14_EntriesArePagesInOrder ==
    [][ (Confirms /\ Len(inline') = 1 /\ Succeeds(inline'[1].resp))
            => /\ Browse(model') /\ model'.err = NoErr
               /\ Len(model'.list.items) = TotalCount(inline'[1].resp)
               /\ \A p \in 1..Len(inline'[1].resp) :
                    \A k \in 1..Len(inline'[1].resp[p].repos) :
                       model'.list.items[TotalCount(SubSeq(inline'[1].resp, 1, p - 1)) + k]
                           = item(inline'[1].resp[p].repos[k]) ]_vars

\* C14 witness: a two-page answer became a two-entry list.
C14_Witness ==
    /\ Browse(model) /\ msg = KeyMsg("enter") /\ Len(inline) = 1
    /\ Len(inline[1].resp) = 2 /\ Succeeds(inline[1].resp)
    /\ Len(inline[1].resp[1].repos) = 1
    /\ Len(model.list.items) = 2

\* C15: a fetch with a failing page gives a BrowseController that carries
\* the error and no entries, whatever the earlier pages held; such a
\* controller answers ctrl+c with the quit command and c with an
\* IdentityController.
C15_FailedFetchDiscardsPages ==
    [][ /\ (Confirms /\ Len(inline') = 1 /\ ~Succeeds(inline'[1].resp))
              => /\ Browse(model') /\ model'.err # NoErr
                 /\ model'.list.items = <<>> /\ model'.repos = <<>>
                 /\ repoModelView(model').screen = "fetchError"
        /\ (Browse(model) /\ model.err # NoErr /\ Handled(KeyMsg("ctrl+c")))
              => Quit \in cmd' /\ status' = "quit"
        /\ (Browse(model) /\ model.err # NoErr /\ Handled(KeyMsg("c")))
              => /\ Identity(model') /\ model'.rootModel = model
                 /\ status' = "running" ]_vars

\* C15 witness: the second page failed after a first page with an entry.
C15_Witness ==
    /\ Browse(model) /\ msg = KeyMsg("enter") /\ Len(inline) = 1
    /\ Len(inline[1].resp) = 2
    /\ inline[1].resp[1].repos # <<>> /\ inline[1].resp[2].failed
    /\ model.err # NoErr /\ model.list.items = <<>>

\* The state is the one a clone-completion message left.
AfterCompletion == msg.type = "cloneFinished" /\ status = "running" /\ Browse(model)

\* C16: in the state a clone-completion message leaves (success or failure)
\* there is a selection, the confirm key dispatches a new clone of the
\* selected entry and enters Cloning, and the change-identity key makes an
\* IdentityController active.
C16_InteractiveAfterCompletion ==
    [][ /\ msg'.type = "cloneFinished" => HasSelection(model')
        /\ (AfterCompletion /\ Handled(KeyMsg("enter")))
              => /\ CloneUrls(cmd') = {ListSelectedItem(model.list).url}
                 /\ clones' = Append(clones, ListSelectedItem(model.list).url)
                 /\ Browse(model') /\ Phase(model') = "Cloning"
                 /\ status' = "running"
        /\ (AfterCompletion /\ Handled(KeyMsg("c")))
              => /\ Identity(model')
                 /\ status' = "running" ]_vars

\* C16 witness: a new clone was started on the result of a failed one.
C16_Witness ==
    /\ Browse(model) /\ msg = KeyMsg("enter") /\ DispatchesClone(cmd)
    /\ model.cloning /\ model.cloneError
    /\ Len(clones) = 1

\* C17: the change-identity key, when the BrowseController is not cloning,
\* makes active an IdentityController seeded with the current identity and
\* holding the BrowseController as it was, with no command and no fetch;
\* while cloning it changes nothing.
C17_ChangeIdentity ==
    [][ (Browse(model) /\ Handled(KeyMsg("c")))
            => /\ IF model.cloning
                  THEN model' = model
                  ELSE /\ Identity(model')
                       /\ model'.username = model.username
                       /\ model'.textInput = model.username
                       /\ model'.rootModel = model
               /\ cmd' = NoCmd
               /\ inline' = <<>>
               /\ clones' = clones
               /\ status' = "running" ]_vars

\* C17 witness: an IdentityController seeded with a non-empty identity over
\* a BrowseController that shows a clone result.
C17_Witness ==
    /\ Identity(model) /\ msg = KeyMsg("c")
    /\ model.username # <<>> /\ model.textInput = model.username
    /\ model.rootModel.username = model.username
    /\ Phase(model.rootModel) = "CloneResult"

\* C18: while cloning, no key, tick or resize message ends the Cloning phase,
\* the clone in flight or the loop, so that the completion message is still
\* handled and the result shown.
C18_CloneRunsToCompletion ==
    [][ (Browse(model) /\ model.cloning /\ msg'.type \in {"key", "tick", "size"})
            => /\ Browse(model') /\ Phase(model') = "Cloning"
               /\ clones' = clones /\ Len(clones') = 1
               /\ status' = "running" ]_vars

\* The clone result a controller shows.
ResultOf(m) == <<m.cloneMsg, m.cloneError>>

\* C19: the result of a finished clone stays as it is through every message
\* but a confirm key that starts a new clone: through ticks, resizes and
\* navigation, and in the IdentityController opened by the change-identity
\* key until cancel brings the BrowseController back.
C19_ResultPersists ==
    [][ /\ (Browse(model) /\ Phase(model) = "CloneResult" /\ Browse(model'))
              => \/ ResultOf(model') = ResultOf(model) /\ Phase(model') = "CloneResult"
                 \/ /\ Handled(KeyMsg("enter")) /\ DispatchesClone(cmd')
                    /\ Phase(model') = "Cloning"
        /\ (Browse(model) /\ Phase(model) = "CloneResult" /\ Identity(model'))
              => /\ ResultOf(model'.rootModel) = ResultOf(model)
                 /\ Phase(model'.rootModel) = "CloneResult"
        /\ (Identity(model) /\ Identity(model'))
              => ResultOf(model'.rootModel) = ResultOf(model.rootModel)
        /\ (Identity(model) /\ Browse(model') /\ Handled(KeyMsg("esc")))
              => /\ ResultOf(model') = ResultOf(model.rootModel)
                 /\ Phase(model') = Phase(model.rootModel) ]_vars

\* C19 witness: a clone result is shown after the cursor moved past it.
C19_Witness ==
    /\ Browse(model) /\ msg = KeyMsg("down") /\ status = "running"
    /\ Phase(model) = "CloneResult"
    /\ model.list.index > 0

====
